---- MODULE Spec2Model ----
(***************************************************************************)
(* Model of src/scripts/multi_agent.py: the command surface (main), the    *)
(* availability check, call_model, the three agents, the two workflows     *)
(* and the saving of the results.                                          *)
(*                                                                         *)
(* Text is a sequence of tokens; a token is an indivisible piece of text.  *)
(* The newline, the backslash and the two quotes are tokens of their own   *)
(* and occur in no other token; of what the backend prints, only the       *)
(* tokens " " and newline are whitespace.                                  *)
(***************************************************************************)
EXTENDS Integers, Sequences, FiniteSets, TLC

VARIABLES
    run,              \* history: the number of this process, the files it found
    argv,             \* sys.argv, script name included
    world,            \* the environment: how the backend may answer, clock values
    pc,               \* position of the process
    exitStatus,       \* the exit status, meaningful when pc = "exited"
    console,          \* the diagnostics written so far (kinds of message)
    MODELS,           \* MultiAgentOrchestrator.MODELS
    now,              \* what time.time() returns
    checks,           \* history: how each run of `ollama --version` ended
    workflow,         \* main's local
    task,             \* main's local
    start_time,       \* run_three_agent_workflow's local
    planning_result,  \* run_three_agent_workflow's local
    coding_result,    \* run_three_agent_workflow's local
    testing_result,   \* run_three_agent_workflow's local
    draft,            \* run_iterative_refinement's local
    refined,          \* run_iterative_refinement's local
    results,          \* the results dictionary
    calls,            \* history: the calls of call_model, in order
    last,             \* history: the last backend call, with the raw response
    files,            \* the file system: name -> [exists, data]
    fsops             \* history: the operations on the file system

vars == <<run, argv, world, pc, exitStatus, console, MODELS, now, checks, workflow,
          task, start_time, planning_result, coding_result, testing_result,
          draft, refined, results, calls, last, files, fsops>>

----------------------------------------------------------------------------
(* Bounds *)

\* longest text the backend prints, in tokens
MaxLen == 3

\* latest reading of the clock
MaxClock == 2

\* number of times the process is started, one after the other
MaxRuns == 2

----------------------------------------------------------------------------
(* Text *)

Whitespace == {" ", "\n"}

RECURSIVE LStrip(_)
LStrip(s) ==
    IF s = <<>> THEN <<>>
    ELSE IF Head(s) \in Whitespace THEN LStrip(Tail(s)) ELSE s

RECURSIVE RStrip(_)
RStrip(s) ==
    IF s = <<>> THEN <<>>
    ELSE IF s[Len(s)] \in Whitespace THEN RStrip(SubSeq(s, 1, Len(s) - 1)) ELSE s

\* Strip that leaves the trailing whitespace in place
Strip_LeftOnly(s) == LStrip(s)

\* str.strip()
Strip(s) == RStrip(LStrip(s))

\* t occurs in s as a contiguous piece
Contains(s, t) ==
    \E i \in 0..(Len(s) - Len(t)) : SubSeq(s, i + 1, i + Len(t)) = t

\* Join that puts nothing between the words
Join_NoSeparator(words) == words

RECURSIVE Join(_)
\* " ".join(words)
Join(words) ==
    IF words = <<>> THEN <<>>
    ELSE IF Len(words) = 1 THEN <<Head(words)>>
    ELSE <<Head(words), " ">> \o Join(Tail(words))

\* the tokens of s, each replaced by the text esc gives for it
RECURSIVE Escape(_, _)
Escape(s, esc) ==
    IF s = <<>> THEN <<>>
    ELSE IF Len(s) = 1
         THEN (IF s[1] \in DOMAIN esc THEN esc[s[1]] ELSE s)
    ELSE LET m == Len(s) \div 2
         IN  Escape(SubSeq(s, 1, m), esc) \o Escape(SubSeq(s, m + 1, Len(s)), esc)

HasTok(s, tok) == \E i \in 1..Len(s) : s[i] = tok

\* the escapes of repr() of a str delimited by quote q
ReprEscapes(q) ==
    ("\\" :> <<"\\", "\\">>) @@ ("\n" :> <<"\\", "n">>) @@ (q :> <<"\\", q>>)

\* repr(s) of a str: in double quotes when s holds ' and no ", else in
\* single quotes
Repr(s) ==
    LET q == IF HasTok(s, "'") /\ ~HasTok(s, "\"") THEN "\"" ELSE "'"
    IN  <<q>> \o Escape(s, ReprEscapes(q)) \o <<q>>

\* all texts of at most n tokens over alphabet A
TextsUpTo(A, n) == UNION {[1..k -> A] : k \in 0..n}

----------------------------------------------------------------------------
(* Values of the results dictionaries: str, float, dict and list, tagged.   *)
(* A dict is the sequence of its items in insertion order.                  *)

Str(text)  == [t |-> "str",  s |-> text, n |-> 0, d |-> <<>>]
Num(x)     == [t |-> "num",  s |-> <<>>, n |-> x, d |-> <<>>]
Dict(kvs)  == [t |-> "dict", s |-> <<>>, n |-> 0, d |-> kvs]
List(vs)   == [t |-> "list", s |-> <<>>, n |-> 0, d |-> vs]
Item(k, v) == [k |-> k, v |-> v]
None       == [t |-> "none", s |-> <<>>, n |-> 0, d |-> <<>>]

\* the keys of a dict, in order
Keys(dict) == [i \in 1..Len(dict.d) |-> dict.d[i].k]

HasKey(dict, k) == \E i \in 1..Len(dict.d) : dict.d[i].k = k

\* dict[k]
Get(dict, k) == dict.d[CHOOSE i \in 1..Len(dict.d) : dict.d[i].k = k].v

----------------------------------------------------------------------------
(* The role registry *)

PLANNING  == "planning"
CODING    == "coding"
TESTING   == "testing"
REVIEWING == "reviewing"

AgentRole == {PLANNING, CODING, TESTING, REVIEWING}

\* ModelConfig; the temperature is in hundredths
ModelConfig(name, role, temperature, description) ==
    [name |-> name, role |-> role, temperature |-> temperature,
     description |-> description]

\* registry[role]: the configuration, or the KeyError of a role with no entry
Lookup(registry, role) ==
    IF role \in DOMAIN registry
    THEN [raised |-> FALSE, config |-> registry[role]]
    ELSE [raised |-> TRUE, config |-> ModelConfig("", "", 0, "KeyError")]

\* InitialMODELS with the configurations of the coding and the testing role
\* under each other's key
InitialMODELS_RolesCrossed ==
    (PLANNING :> ModelConfig("qwen2.5-coder:14b-instruct-q4_K_M", PLANNING, 20,
                             "Creates detailed implementation plans"))
    @@ (TESTING :> ModelConfig("qwen2.5-coder:7b-instruct-q8_0", CODING, 15,
                               "Implements code with high quality"))
    @@ (CODING :> ModelConfig("qwen2.5-coder:7b-instruct-q6_K", TESTING, 15,
                              "Generates tests and validates"))

InitialMODELS ==
    (PLANNING :> ModelConfig("qwen2.5-coder:14b-instruct-q4_K_M", PLANNING, 20,
                             "Creates detailed implementation plans"))
    @@ (CODING :> ModelConfig("qwen2.5-coder:7b-instruct-q8_0", CODING, 15,
                              "Implements code with high quality"))
    @@ (TESTING :> ModelConfig("qwen2.5-coder:7b-instruct-q6_K", TESTING, 15,
                               "Generates tests and validates"))

----------------------------------------------------------------------------
(* The backend: one run of `ollama run <model> <prompt>`                    *)

\* the timed-out message of call_model
TimeoutText == <<"Error: Model call timed out">>

\* what the backend may print: any text of at most MaxLen tokens of
\* whitespace and letters, and a text that reads like call_model's own
\* timeout message
StdoutTexts == TextsUpTo({" ", "a"}, MaxLen) \cup {TimeoutText}

\* The ways one subprocess.run of the backend ends: the process exits with a
\* status and its output, it is still running at the timeout, or it cannot be
\* started at all (OSError, ValueError: not caught by call_model).
Exit(rc, out) == [kind |-> "exit", rc |-> rc, out |-> out]
Hang          == [kind |-> "hang", rc |-> 0, out |-> <<>>]
CannotStart   == [kind |-> "oserror", rc |-> 0, out |-> <<>>]

Responses(texts) ==
    {Exit(0, out) : out \in texts} \cup {Exit(1, <<>>), Hang, CannotStart}

\* the outcome of a response as subprocess.run(check=True, timeout=120) sees it
Outcome(resp) ==
    IF resp.kind = "hang" THEN "TimeoutExpired"
    ELSE IF resp.kind = "oserror" THEN "OSError"
    ELSE IF resp.rc # 0 THEN "CalledProcessError"
    ELSE "ok"

\* the command line call_model runs
Command(model_name, full_prompt) ==
    [exe |-> "ollama", sub |-> "run", model |-> model_name, prompt |-> full_prompt]

\* str(CalledProcessError(rc, cmd)), cmd the argument list
CalledProcessErrorStr(rc, cmd) ==
    <<"Command", " ", "'", "[">> \o Repr(<<cmd.exe>>) \o <<",", " ">>
    \o Repr(<<cmd.sub>>) \o <<",", " ">> \o Repr(<<cmd.model>>) \o <<",", " ">>
    \o Repr(cmd.prompt)
    \o <<"]", "'", " ", "returned non-zero exit status", " ", ToString(rc), ".">>

\* call_model's full_prompt; a system prompt of None or "" is left out
FullPrompt(prompt, system_prompt) ==
    IF system_prompt # <<>> THEN system_prompt \o <<"\n", "\n">> \o prompt
    ELSE prompt

Returned(value) == [raised |-> FALSE, value |-> value]
Raised          == [raised |-> TRUE, value |-> <<>>]

\* call_model that answers a timeout with an empty string
call_model_EmptyOnTimeout(model_name, prompt, temperature, system_prompt, resp) ==
    LET cmd == Command(model_name, FullPrompt(prompt, system_prompt))
        o   == Outcome(resp)
    IN  IF o = "ok" THEN Returned(Strip(resp.out))
        ELSE IF o = "TimeoutExpired" THEN Returned(<<>>)
        ELSE IF o = "CalledProcessError"
             THEN Returned(<<"Error: ">> \o CalledProcessErrorStr(resp.rc, cmd))
        ELSE Raised

\* call_model without the handler of TimeoutExpired
call_model_TimeoutUncaught(model_name, prompt, temperature, system_prompt, resp) ==
    LET cmd == Command(model_name, FullPrompt(prompt, system_prompt))
        o   == Outcome(resp)
    IN  IF o = "ok" THEN Returned(Strip(resp.out))
        ELSE IF o = "CalledProcessError"
             THEN Returned(<<"Error: ">> \o CalledProcessErrorStr(resp.rc, cmd))
        ELSE Raised

\* call_model with one handler for both exceptions, returning f"Error: {e}"
call_model_OneHandler(model_name, prompt, temperature, system_prompt, resp) ==
    LET cmd == Command(model_name, FullPrompt(prompt, system_prompt))
        o   == Outcome(resp)
    IN  IF o = "ok" THEN Returned(Strip(resp.out))
        ELSE IF o = "TimeoutExpired"
             THEN Returned(<<"Error: ", "Command", " ", "'", "[">>
                           \o Repr(<<cmd.exe>>) \o <<",", " ">>
                           \o Repr(<<cmd.sub>>) \o <<",", " ">>
                           \o Repr(<<cmd.model>>) \o <<",", " ">>
                           \o Repr(cmd.prompt)
                           \o <<"]", "'", " ", "timed out after 120 seconds">>)
        ELSE IF o = "CalledProcessError"
             THEN Returned(<<"Error: ">> \o CalledProcessErrorStr(resp.rc, cmd))
        ELSE Raised

\* call_model that names the limit in its answer to a timeout
call_model_TimeoutNamesLimit(model_name, prompt, temperature, system_prompt, resp) ==
    LET cmd == Command(model_name, FullPrompt(prompt, system_prompt))
        o   == Outcome(resp)
    IN  IF o = "ok" THEN Returned(Strip(resp.out))
        ELSE IF o = "TimeoutExpired"
             THEN Returned(<<"Error: Model call timed out", " after 120 seconds">>)
        ELSE IF o = "CalledProcessError"
             THEN Returned(<<"Error: ">> \o CalledProcessErrorStr(resp.rc, cmd))
        ELSE Raised

\* call_model(model_name, prompt, temperature, system_prompt), the backend
\* answering resp: the string returned, or the exception passed on
call_model(model_name, prompt, temperature, system_prompt, resp) ==
    LET cmd == Command(model_name, FullPrompt(prompt, system_prompt))
        o   == Outcome(resp)
    IN  IF o = "ok" THEN Returned(Strip(resp.out))
        ELSE IF o = "TimeoutExpired" THEN Returned(TimeoutText)
        ELSE IF o = "CalledProcessError"
             THEN Returned(<<"Error: ">> \o CalledProcessErrorStr(resp.rc, cmd))
        ELSE Raised

\* the entry of the history of calls
CallEntry(model_name, prompt, temperature, system_prompt, resp) ==
    [model       |-> model_name,
     temperature |-> temperature,
     cmd         |-> Command(model_name, FullPrompt(prompt, system_prompt)),
     outcome     |-> Outcome(resp),
     result      |-> call_model(model_name, prompt, temperature, system_prompt, resp)]

----------------------------------------------------------------------------
(* The prompts of the three agents and of the three passes *)

PlanningSystemPrompt ==
    <<"You are an expert software architect. Your role is to:", "\n",
      "1. Analyze the task requirements thoroughly", "\n",
      "2. Break down the task into clear, actionable steps", "\n",
      "3. Identify potential challenges and edge cases", "\n",
      "4. Suggest the best approach and design patterns", "\n",
      "5. Create a detailed implementation plan", "\n", "\n",
      "Provide a structured plan with:", "\n",
      "- Overview of the approach", "\n",
      "- Step-by-step implementation steps", "\n",
      "- Key considerations and potential issues", "\n",
      "- Suggestions for testing", "\n">>

PlanningPrompt(task_description) ==
    <<"Task: ">> \o task_description
    \o <<"\n", "\n",
         "Please create a detailed implementation plan for this task.", "\n">>

CodingSystemPrompt ==
    <<"You are an expert software engineer. Your role is to:", "\n",
      "1. Implement code based on the provided plan", "\n",
      "2. Write clean, efficient, and well-documented code", "\n",
      "3. Follow best practices and coding standards", "\n",
      "4. Include proper error handling", "\n",
      "5. Add comments for complex logic", "\n",
      "6. Ensure code is production-ready", "\n", "\n",
      "Focus on code quality over speed. The code should be correct, maintainable, and robust.",
      "\n">>

CodingPrompt(task_text, plan) ==
    <<"Task: ">> \o task_text
    \o <<"\n", "\n", "Implementation Plan:", "\n">> \o plan
    \o <<"\n", "\n",
         "Please implement the code according to this plan. Provide complete, working code.",
         "\n">>

TestingSystemPrompt ==
    <<"You are an expert QA engineer. Your role is to:", "\n",
      "1. Review the provided code thoroughly", "\n",
      "2. Identify potential bugs or issues", "\n",
      "3. Generate comprehensive unit tests", "\n",
      "4. Test edge cases and error conditions", "\n",
      "5. Provide feedback on code quality", "\n",
      "6. Suggest improvements if needed", "\n", "\n",
      "Focus on thorough validation and quality assurance.", "\n">>

\* TestingPrompt with the code left out
TestingPrompt_NoCode(task_text, code) ==
    <<"Task: ">> \o task_text
    \o <<"\n", "\n", "Code to test:", "\n">>
    \o <<"\n", "\n", "Please:", "\n",
         "1. Review the code for potential issues", "\n",
         "2. Generate comprehensive unit tests", "\n",
         "3. Identify any bugs or improvements needed", "\n">>

TestingPrompt(task_text, code) ==
    <<"Task: ">> \o task_text
    \o <<"\n", "\n", "Code to test:", "\n">> \o code
    \o <<"\n", "\n", "Please:", "\n",
         "1. Review the code for potential issues", "\n",
         "2. Generate comprehensive unit tests", "\n",
         "3. Identify any bugs or improvements needed", "\n">>

DraftPrompt(task_text) ==
    <<"Task: ">> \o task_text
    \o <<"\n", "\n", "Create a working implementation:">>

\* RefinePrompt that embeds the draft as repr() writes it
RefinePrompt_ReprOfDraft(task_text, draft_text) ==
    <<"Task: ">> \o task_text
    \o <<"\n", "\n", "Initial draft:", "\n">> \o Repr(draft_text)
    \o <<"\n", "\n", "Review and improve this code, fix any issues:">>

RefinePrompt(task_text, draft_text) ==
    <<"Task: ">> \o task_text
    \o <<"\n", "\n", "Initial draft:", "\n">> \o draft_text
    \o <<"\n", "\n", "Review and improve this code, fix any issues:">>

DeepFixPrompt(task_text, refined_text) ==
    <<"Task: ">> \o task_text
    \o <<"\n", "\n", "Refined code:", "\n">> \o refined_text
    \o <<"\n", "\n", "Final review and any necessary fixes:">>

\* the model, the label recorded and the temperature of the three passes
PassModel(n) ==
    IF n = 1 THEN "qwen2.5-coder:7b-instruct-q4_K_M"
    ELSE IF n = 2 THEN "qwen2.5-coder:7b-instruct-q6_K"
    ELSE "qwen2.5-coder:7b-instruct-q8_0"

\* PassLabel with the label of the draft pass for every pass
PassLabel_AlwaysQ4(n) == "7b-q4"

PassLabel(n) == IF n = 1 THEN "7b-q4" ELSE IF n = 2 THEN "7b-q6" ELSE "7b-q8"

\* PassTemperature with the draft pass at the temperature of the others
PassTemperature_AllSame(n) == 15

PassTemperature(n) == IF n = 1 THEN 20 ELSE 15

\* the dictionaries the agents return
\* PlanningResult without the time of the stage
PlanningResult_NoTimestamp(plan, model_name, t) ==
    Dict(<<Item("plan", Str(plan)), Item("model", Str(<<model_name>>))>>)

PlanningResult(plan, model_name, t) ==
    Dict(<<Item("plan", Str(plan)), Item("model", Str(<<model_name>>)),
           Item("timestamp", Num(t))>>)

\* CodingResult that leaves the code out
CodingResult_EmptyCode(code, model_name, t) ==
    Dict(<<Item("code", Str(<<>>)), Item("model", Str(<<model_name>>)),
           Item("timestamp", Num(t))>>)

CodingResult(code, model_name, t) ==
    Dict(<<Item("code", Str(code)), Item("model", Str(<<model_name>>)),
           Item("timestamp", Num(t))>>)

TestingResult(tests, model_name, t) ==
    Dict(<<Item("tests", Str(tests)), Item("model", Str(<<model_name>>)),
           Item("timestamp", Num(t))>>)

\* ThreeAgentResults with the coding result compiled ahead of the planning one
ThreeAgentResults_CodingFirst(task_text, planning, coding, testing, total_time) ==
    Dict(<<Item("task", Str(task_text)),
           Item("coding", coding),
           Item("planning", planning),
           Item("testing", testing),
           Item("total_time_seconds", Num(total_time)),
           Item("workflow", Str(<<"three_agent_quality">>))>>)

\* the dictionary run_three_agent_workflow returns
ThreeAgentResults(task_text, planning, coding, testing, total_time) ==
    Dict(<<Item("task", Str(task_text)),
           Item("planning", planning),
           Item("coding", coding),
           Item("testing", testing),
           Item("total_time_seconds", Num(total_time)),
           Item("workflow", Str(<<"three_agent_quality">>))>>)

\* results = {"task": task, "iterations": []}
IterativeResults(task_text) ==
    Dict(<<Item("task", Str(task_text)), Item("iterations", List(<<>>))>>)

\* results["iterations"].append({"pass": n, "model": label, "output": output})
AppendIteration(res, n, label, output) ==
    Dict([i \in 1..Len(res.d) |->
            IF res.d[i].k = "iterations"
            THEN Item("iterations",
                      List(Append(res.d[i].v.d,
                                  Dict(<<Item("pass", Num(n)),
                                         Item("model", Str(<<label>>)),
                                         Item("output", Str(output))>>))))
            ELSE res.d[i]])

----------------------------------------------------------------------------
(* json.dump: the document as the sequence of its tokens (the indentation   *)
(* is left out)                                                             *)

\* JsonEscapes that leaves the backslash as it is
JsonEscapes_NoBackslash ==
    ("\n" :> <<"\\", "n">>) @@ ("\"" :> <<"\\", "\"">>)

\* the escapes of a JSON string
JsonEscapes ==
    ("\\" :> <<"\\", "\\">>) @@ ("\n" :> <<"\\", "n">>) @@ ("\"" :> <<"\\", "\"">>)

JsonStr(text) == <<"\"">> \o Escape(text, JsonEscapes) \o <<"\"">>

RECURSIVE JsonDump(_)
RECURSIVE JsonItems(_)
RECURSIVE JsonElems(_)

JsonItems(kvs) ==
    IF kvs = <<>> THEN <<>>
    ELSE JsonStr(<<Head(kvs).k>>) \o <<":">> \o JsonDump(Head(kvs).v)
         \o (IF Len(kvs) > 1 THEN <<",">> ELSE <<>>) \o JsonItems(Tail(kvs))

JsonElems(vs) ==
    IF vs = <<>> THEN <<>>
    ELSE JsonDump(Head(vs))
         \o (IF Len(vs) > 1 THEN <<",">> ELSE <<>>) \o JsonElems(Tail(vs))

JsonDump(v) ==
    IF v.t = "str" THEN JsonStr(v.s)
    ELSE IF v.t = "num" THEN <<ToString(v.n)>>
    ELSE IF v.t = "dict" THEN <<"{">> \o JsonItems(v.d) \o <<"}">>
    ELSE <<"[">> \o JsonElems(v.d) \o <<"]">>

----------------------------------------------------------------------------
(* The process *)

Script == "multi_agent.py"

DefaultTask == <<"Create a simple calculator">>

\* the command lines the process is started with
Argvs ==
    {<<Script>>}
    \cup {<<Script, w>> \o words :
            w \in {"three-agent", "iterative", "refine"},
            words \in {<<>>, <<"Implement", "quicksort">>}}

OutputFile(wf) ==
    IF wf = "three-agent" THEN "multi_agent_results.json" ELSE "iterative_results.json"

FileNames == {"multi_agent_results.json", "iterative_results.json"}

NoFile == [exists |-> FALSE, data |-> <<>>]

InitWith(responses, times) ==
    /\ run = [n |-> 1, files |-> [f \in FileNames |-> NoFile]]
    /\ argv \in Argvs
    /\ world = [responses |-> responses, times |-> times]
    /\ pc = "main"
    /\ exitStatus = 0
    /\ console = <<>>
    /\ MODELS = InitialMODELS
    /\ now \in times
    /\ checks = <<>>
    /\ workflow = ""
    /\ task = <<>>
    /\ start_time = 0
    /\ planning_result = None
    /\ coding_result = None
    /\ testing_result = None
    /\ draft = <<>>
    /\ refined = <<>>
    /\ results = None
    /\ calls = <<>>
    /\ last = [resp |-> Hang, result |-> Raised]
    /\ files = [f \in FileNames |-> NoFile]
    /\ fsops = <<>>

\* every text the backend may print, the clock standing still
Init == InitWith(Responses(StdoutTexts), {0})

\* sys.exit(status), or the end of main
ExitWith(status, message) ==
    /\ pc' = "exited"
    /\ exitStatus' = status
    /\ console' = Append(console, message)

\* an exception nothing catches: the traceback, and exit status 1
Uncaught == ExitWith(1, "Traceback")

\* Main that constructs the orchestrator before it looks at the arguments
Main_ChecksBeforeUsage ==
    /\ pc = "main"
    /\ workflow' = IF Len(argv) < 2 THEN "" ELSE argv[2]
    /\ task' = IF Len(argv) > 2 THEN Join(SubSeq(argv, 3, Len(argv)))
               ELSE DefaultTask
    /\ pc' = "check_ollama"
    /\ UNCHANGED <<exitStatus, console>>
    /\ UNCHANGED <<run, argv, world, MODELS, now, checks, start_time, planning_result,
                   coding_result, testing_result, draft, refined, results, calls,
                   last, files, fsops>>

\* main, up to the construction of the orchestrator
Main ==
    /\ pc = "main"
    /\ IF Len(argv) < 2
       THEN /\ ExitWith(0, "Usage")
            /\ UNCHANGED <<workflow, task>>
       ELSE /\ workflow' = argv[2]
            /\ task' = IF Len(argv) > 2 THEN Join(SubSeq(argv, 3, Len(argv)))
                       ELSE DefaultTask
            /\ pc' = "check_ollama"
            /\ UNCHANGED <<exitStatus, console>>
    /\ UNCHANGED <<run, argv, world, MODELS, now, checks, start_time, planning_result,
                   coding_result, testing_result, draft, refined, results, calls,
                   last, files, fsops>>

\* the ways `ollama --version` ends
CheckOutcomes == {"ok", "CalledProcessError", "FileNotFoundError", "OSError"}

\* check_ollama without the sys.exit(1) after the message
check_ollama_NoExit(o) == IF o = "OSError" THEN "raise" ELSE "return"

\* check_ollama, `ollama --version` ending as o: it returns, it exits with
\* status 1, or it passes the exception on
check_ollama(o) ==
    IF o = "ok" THEN "return"
    ELSE IF o \in {"CalledProcessError", "FileNotFoundError"} THEN "exit"
    ELSE "raise"

\* MultiAgentOrchestrator(verbose=True): __init__ and check_ollama
CheckOllama ==
    /\ pc = "check_ollama"
    /\ \E o \in CheckOutcomes :
         /\ checks' = Append(checks, o)
         /\ IF check_ollama(o) = "return"
            THEN pc' = "dispatch" /\ UNCHANGED <<exitStatus, console>>
            ELSE IF check_ollama(o) = "exit"
                 THEN ExitWith(1, "Error: Ollama is not installed")
            ELSE Uncaught
    /\ UNCHANGED <<run, argv, world, MODELS, now, workflow, task, start_time,
                   planning_result, coding_result, testing_result, draft, refined,
                   results, calls, last, files, fsops>>

\* Route with the iterative workflow as the else branch
Route_IterativeByDefault(wf) ==
    IF wf = "three-agent" THEN "three_agent" ELSE "iterative"

\* the branch of main a workflow name takes
Route(wf) ==
    IF wf = "three-agent" THEN "three_agent"
    ELSE IF wf = "iterative" THEN "iterative"
    ELSE "unknown"

\* main's choice of the workflow
Dispatch ==
    /\ pc = "dispatch"
    /\ IF Route(workflow) = "unknown"
       THEN ExitWith(1, "Unknown workflow")
       ELSE pc' = Route(workflow) /\ UNCHANGED <<exitStatus, console>>
    /\ UNCHANGED <<run, argv, world, MODELS, now, checks, workflow, task, start_time,
                   planning_result, coding_result, testing_result, draft, refined,
                   results, calls, last, files, fsops>>

\* one call of call_model: the backend answers resp and the clock reads t
\* when it returns
Call(model_name, prompt, temperature, system_prompt, resp, t) ==
    /\ calls' = Append(calls, CallEntry(model_name, prompt, temperature,
                                        system_prompt, resp))
    /\ last' = [resp |-> resp,
                result |-> call_model(model_name, prompt, temperature,
                                      system_prompt, resp)]
    /\ now' = t

\* run_three_agent_workflow, up to the first agent
StartThreeAgent ==
    /\ pc = "three_agent"
    /\ start_time' = now
    /\ pc' = "planning"
    /\ UNCHANGED <<run, argv, world, exitStatus, console, MODELS, now, checks, workflow,
                   task, planning_result, coding_result, testing_result, draft,
                   refined, results, calls, last, files, fsops>>

\* planning_agent(task)
PlanningAgent ==
    /\ pc = "planning"
    /\ \E resp \in world.responses, t \in world.times :
         LET model == MODELS[PLANNING]
             plan  == call_model(model.name, PlanningPrompt(task),
                                 model.temperature, PlanningSystemPrompt, resp)
         IN  /\ Call(model.name, PlanningPrompt(task), model.temperature,
                     PlanningSystemPrompt, resp, t)
             /\ IF plan.raised
                THEN Uncaught /\ UNCHANGED planning_result
                ELSE /\ planning_result' = PlanningResult(plan.value, model.name, t)
                     /\ pc' = "coding"
                     /\ UNCHANGED <<exitStatus, console>>
    /\ UNCHANGED <<run, argv, world, MODELS, checks, workflow, task, start_time,
                   coding_result, testing_result, draft, refined, results, files,
                   fsops>>

\* coding_agent(task, planning_result["plan"])
CodingAgent ==
    /\ pc = "coding"
    /\ \E resp \in world.responses, t \in world.times :
         LET model  == MODELS[CODING]
             prompt == CodingPrompt(task, Get(planning_result, "plan").s)
             code   == call_model(model.name, prompt, model.temperature,
                                  CodingSystemPrompt, resp)
         IN  /\ Call(model.name, prompt, model.temperature, CodingSystemPrompt,
                     resp, t)
             /\ IF code.raised
                THEN Uncaught /\ UNCHANGED coding_result
                ELSE /\ coding_result' = CodingResult(code.value, model.name, t)
                     /\ pc' = "testing"
                     /\ UNCHANGED <<exitStatus, console>>
    /\ UNCHANGED <<run, argv, world, MODELS, checks, workflow, task, start_time,
                   planning_result, testing_result, draft, refined, results, files,
                   fsops>>

\* testing_agent(task, coding_result["code"])
TestingAgent ==
    /\ pc = "testing"
    /\ \E resp \in world.responses, t \in world.times :
         LET model  == MODELS[TESTING]
             prompt == TestingPrompt(task, Get(coding_result, "code").s)
             tests  == call_model(model.name, prompt, model.temperature,
                                  TestingSystemPrompt, resp)
         IN  /\ Call(model.name, prompt, model.temperature, TestingSystemPrompt,
                     resp, t)
             /\ IF tests.raised
                THEN Uncaught /\ UNCHANGED testing_result
                ELSE /\ testing_result' = TestingResult(tests.value, model.name, t)
                     /\ pc' = "compile"
                     /\ UNCHANGED <<exitStatus, console>>
    /\ UNCHANGED <<run, argv, world, MODELS, checks, workflow, task, start_time,
                   planning_result, coding_result, draft, refined, results, files,
                   fsops>>

\* run_three_agent_workflow, from total_time to the return
CompileResults ==
    /\ pc = "compile"
    /\ results' = ThreeAgentResults(task, planning_result, coding_result,
                                    testing_result, now - start_time)
    /\ pc' = "open"
    /\ UNCHANGED <<run, argv, world, exitStatus, console, MODELS, now, checks, workflow,
                   task, start_time, planning_result, coding_result,
                   testing_result, draft, refined, calls, last, files, fsops>>

\* run_iterative_refinement, up to the first pass
\* StartIterative that sets the temperature of the coding role for its passes
StartIterative_SetsTemperature ==
    /\ pc = "iterative"
    /\ results' = IterativeResults(task)
    /\ MODELS' = [MODELS EXCEPT ![CODING].temperature = PassTemperature(1)]
    /\ pc' = "pass1"
    /\ UNCHANGED <<run, argv, world, exitStatus, console, now, checks, workflow,
                   task, start_time, planning_result, coding_result,
                   testing_result, draft, refined, calls, last, files, fsops>>

StartIterative ==
    /\ pc = "iterative"
    /\ results' = IterativeResults(task)
    /\ pc' = "pass1"
    /\ UNCHANGED <<run, argv, world, exitStatus, console, MODELS, now, checks, workflow,
                   task, start_time, planning_result, coding_result,
                   testing_result, draft, refined, calls, last, files, fsops>>

\* Pass1 that calls the model again when the call failed
Pass1_RetryOnFailure ==
    /\ pc = "pass1"
    /\ \E resp \in world.responses, t \in world.times :
         LET out == call_model(PassModel(1), DraftPrompt(task),
                               PassTemperature(1), <<>>, resp)
         IN  /\ Call(PassModel(1), DraftPrompt(task), PassTemperature(1), <<>>,
                     resp, t)
             /\ IF out.raised
                THEN Uncaught /\ UNCHANGED <<draft, results>>
                ELSE IF Outcome(resp) # "ok"
                     THEN UNCHANGED <<pc, draft, results, exitStatus, console>>
                ELSE /\ draft' = out.value
                     /\ results' = AppendIteration(results, 1, PassLabel(1), out.value)
                     /\ pc' = "pass2"
                     /\ UNCHANGED <<exitStatus, console>>
    /\ UNCHANGED <<run, argv, world, MODELS, checks, workflow, task, start_time,
                   planning_result, coding_result, testing_result, refined, files,
                   fsops>>

\* Pass 1: Fast draft
Pass1 ==
    /\ pc = "pass1"
    /\ \E resp \in world.responses, t \in world.times :
         LET out == call_model(PassModel(1), DraftPrompt(task),
                               PassTemperature(1), <<>>, resp)
         IN  /\ Call(PassModel(1), DraftPrompt(task), PassTemperature(1), <<>>,
                     resp, t)
             /\ IF out.raised
                THEN Uncaught /\ UNCHANGED <<draft, results>>
                ELSE /\ draft' = out.value
                     /\ results' = AppendIteration(results, 1, PassLabel(1), out.value)
                     /\ pc' = "pass2"
                     /\ UNCHANGED <<exitStatus, console>>
    /\ UNCHANGED <<run, argv, world, MODELS, checks, workflow, task, start_time,
                   planning_result, coding_result, testing_result, refined, files,
                   fsops>>

\* Pass 2: Quality refinement
Pass2 ==
    /\ pc = "pass2"
    /\ \E resp \in world.responses, t \in world.times :
         LET out == call_model(PassModel(2), RefinePrompt(task, draft),
                               PassTemperature(2), <<>>, resp)
         IN  /\ Call(PassModel(2), RefinePrompt(task, draft), PassTemperature(2),
                     <<>>, resp, t)
             /\ IF out.raised
                THEN Uncaught /\ UNCHANGED <<refined, results>>
                ELSE /\ refined' = out.value
                     /\ results' = AppendIteration(results, 2, PassLabel(2), out.value)
                     /\ pc' = "pass3"
                     /\ UNCHANGED <<exitStatus, console>>
    /\ UNCHANGED <<run, argv, world, MODELS, checks, workflow, task, start_time,
                   planning_result, coding_result, testing_result, draft, files,
                   fsops>>

\* Pass 3: Deep fix, and the return
Pass3 ==
    /\ pc = "pass3"
    /\ \E resp \in world.responses, t \in world.times :
         LET out == call_model(PassModel(3), DeepFixPrompt(task, refined),
                               PassTemperature(3), <<>>, resp)
         IN  /\ Call(PassModel(3), DeepFixPrompt(task, refined),
                     PassTemperature(3), <<>>, resp, t)
             /\ IF out.raised
                THEN Uncaught /\ UNCHANGED results
                ELSE /\ results' = AppendIteration(results, 3, PassLabel(3), out.value)
                     /\ pc' = "open"
                     /\ UNCHANGED <<exitStatus, console>>
    /\ UNCHANGED <<run, argv, world, MODELS, checks, workflow, task, start_time,
                   planning_result, coding_result, testing_result, draft, refined,
                   files, fsops>>

\* open(output_file, 'w'): the file is created or emptied, or OSError
OpenOutput ==
    /\ pc = "open"
    /\ \E opened \in BOOLEAN :
         IF opened
         THEN /\ files' = [files EXCEPT ![OutputFile(workflow)] =
                             [exists |-> TRUE, data |-> <<>>]]
              /\ fsops' = Append(fsops, [op |-> "truncate",
                                         file |-> OutputFile(workflow), n |-> 0])
              /\ pc' = "dump"
              /\ UNCHANGED <<exitStatus, console>>
         ELSE Uncaught /\ UNCHANGED <<files, fsops>>
    /\ UNCHANGED <<run, argv, world, MODELS, now, checks, workflow, task, start_time,
                   planning_result, coding_result, testing_result, draft, refined,
                   results, calls, last>>

\* how much of a document of n tokens is in the file when the writing of it
\* ends: all of it, or, when the writing fails, nothing or a part (the half
\* stands for every proper part)
Written(n) == {0, n \div 2, n}

\* DumpResults that writes after what the file held when the process started
DumpResults_AppendsToOld ==
    /\ pc = "dump"
    /\ LET doc == JsonDump(results)
       IN  \E n \in Written(Len(doc)) :
             /\ files' = [files EXCEPT ![OutputFile(workflow)] =
                            [exists |-> TRUE,
                             data |-> run.files[OutputFile(workflow)].data
                                      \o SubSeq(doc, 1, n)]]
             /\ fsops' = Append(fsops, [op |-> "write",
                                        file |-> OutputFile(workflow), n |-> n])
             /\ IF n = Len(doc) THEN ExitWith(0, "Full results saved")
                ELSE Uncaught
    /\ UNCHANGED <<run, argv, world, MODELS, now, checks, workflow, task, start_time,
                   planning_result, coding_result, testing_result, draft, refined,
                   results, calls, last>>

\* DumpResults that ends the run as saved when the writing failed
DumpResults_HidesFailure ==
    /\ pc = "dump"
    /\ LET doc == JsonDump(results)
       IN  \E n \in Written(Len(doc)) :
             /\ files' = [files EXCEPT ![OutputFile(workflow)] =
                            [exists |-> TRUE, data |-> SubSeq(doc, 1, n)]]
             /\ fsops' = Append(fsops, [op |-> "write",
                                        file |-> OutputFile(workflow), n |-> n])
             /\ ExitWith(0, "Full results saved")
    /\ UNCHANGED <<run, argv, world, MODELS, now, checks, workflow, task, start_time,
                   planning_result, coding_result, testing_result, draft, refined,
                   results, calls, last>>

\* json.dump(results, f, indent=2) and the end of the with block: the whole
\* document reaches the file, or the writing fails part way
DumpResults ==
    /\ pc = "dump"
    /\ LET doc == JsonDump(results)
       IN  \E n \in Written(Len(doc)) :
             /\ files' = [files EXCEPT ![OutputFile(workflow)] =
                            [exists |-> TRUE, data |-> SubSeq(doc, 1, n)]]
             /\ fsops' = Append(fsops, [op |-> "write",
                                        file |-> OutputFile(workflow), n |-> n])
             /\ IF n = Len(doc) THEN ExitWith(0, "Full results saved")
                ELSE Uncaught
    /\ UNCHANGED <<run, argv, world, MODELS, now, checks, workflow, task, start_time,
                   planning_result, coding_result, testing_result, draft, refined,
                   results, calls, last>>

Next ==
    \/ Main
    \/ CheckOllama
    \/ Dispatch
    \/ StartThreeAgent
    \/ PlanningAgent
    \/ CodingAgent
    \/ TestingAgent
    \/ CompileResults
    \/ StartIterative
    \/ Pass1
    \/ Pass2
    \/ Pass3
    \/ OpenOutput
    \/ DumpResults

Spec == Init /\ [][Next]_vars

\* Spec, every step that can be taken being taken in the end: the process
\* runs on, and a call of the backend ends in one of its ways
FairSpec == Spec /\ WF_vars(Next)

\* a backend that prints a text with or without whitespace around it or
\* fails in any of its ways, the clock reading anything at each call
\* (time.time() is the wall clock, which can be set back)
InitClock ==
    InitWith({Exit(0, <<"\"", "\\">>), Exit(0, <<" ", "a", "\n">>), Exit(1, <<>>), Hang,
              CannotStart},
             0..MaxClock)

SpecClock == InitClock /\ [][Next]_vars

\* the process is started again after it has ended: a new interpreter, the
\* files as the last process left them
Restart ==
    /\ pc = "exited"
    /\ run.n < MaxRuns
    /\ run' = [n |-> run.n + 1, files |-> files]
    /\ argv' \in Argvs
    /\ pc' = "main"
    /\ exitStatus' = 0
    /\ console' = <<>>
    /\ MODELS' = InitialMODELS
    /\ checks' = <<>>
    /\ workflow' = ""
    /\ task' = <<>>
    /\ start_time' = 0
    /\ planning_result' = None
    /\ coding_result' = None
    /\ testing_result' = None
    /\ draft' = <<>>
    /\ refined' = <<>>
    /\ results' = None
    /\ calls' = <<>>
    /\ last' = [resp |-> Hang, result |-> Raised]
    /\ fsops' = <<>>
    /\ UNCHANGED <<world, now, files>>

NextRuns == Next \/ Restart

\* a backend that prints one text or runs into the timeout, the clock
\* standing still
InitRuns == InitWith({Exit(0, <<"a">>), Hang}, {0})

SpecRuns == InitRuns /\ [][NextRuns]_vars

----------------------------------------------------------------------------
(* Properties *)

\* the workflow function has returned its results to main
RunReturned ==
    \/ pc \in {"open", "dump"}
    \/ pc = "exited" /\ Len(calls) = 3 /\ ~last.result.raised

\* the outcomes call_model turns into a returned failure text
StageFailures == {"TimeoutExpired", "CalledProcessError"}

\* the outcomes of the calls made so far, in order
Outcomes == [i \in 1..Len(calls) |-> calls[i].outcome]

IsDict(item) == item.v.t = "dict"

\* the stage results of the three-agent results, with their keys, in order
StageItems(res) == SelectSeq(res.d, IsDict)

\* C1: after any completed run of the three-stage workflow, whatever the
\* outcome of each stage's call, the results hold exactly three stage
\* results, in the order planning, coding, testing, each the result of its
\* own agent.
C1_ThreeStageResultsInOrder ==
    (workflow = "three-agent" /\ RunReturned) =>
        /\ Len(StageItems(results)) = 3
        /\ Keys(Dict(StageItems(results))) = <<"planning", "coding", "testing">>
        /\ HasKey(Get(results, "planning"), "plan")
        /\ HasKey(Get(results, "coding"), "code")
        /\ HasKey(Get(results, "testing"), "tests")

\* a completed three-stage run whose three calls ended in the three ways
C1_Witness ==
    /\ workflow = "three-agent"
    /\ RunReturned
    /\ Outcomes = <<"TimeoutExpired", "CalledProcessError", "ok">>

\* the list results["iterations"]
Iterations(res) == Get(res, "iterations").d

C3_CodingFailureReachesTesting ==
    (workflow = "three-agent" /\ Len(calls) >= 2
        /\ calls[2].outcome \in StageFailures) =>
        /\ Len(calls) = 2 => pc = "testing"
        /\ Len(calls) >= 3 =>
             /\ calls[3].model = "qwen2.5-coder:7b-instruct-q6_K"
             /\ Contains(calls[3].cmd.prompt, calls[2].result.value)

\* the testing call has been made after a coding call that timed out
C3_Witness ==
    /\ workflow = "three-agent"
    /\ Len(calls) = 3
    /\ calls[2].outcome = "TimeoutExpired"
    /\ calls[2].result.value = TimeoutText

\* the testing call has been made after a coding call that exited non-zero
C3_WitnessInvocationError ==
    /\ workflow = "three-agent"
    /\ Len(calls) = 3
    /\ calls[2].outcome = "CalledProcessError"

Bool(b) == [t |-> "bool", s |-> <<>>, n |-> IF b THEN 1 ELSE 0, d |-> <<>>]

\* the three stage results of the results of a returned run, in order
StageDicts ==
    IF workflow = "three-agent"
    THEN [i \in 1..Len(StageItems(results)) |-> StageItems(results)[i].v]
    ELSE Iterations(results)

\* the text a stage result carries
StageText(i) ==
    IF workflow = "three-agent"
    THEN Get(StageDicts[i], <<"plan", "code", "tests">>[i]).s
    ELSE Get(StageDicts[i], "output").s

\* the text reads as a failure of call_model
ReadsAsError(text) ==
    text # <<>> /\ text[1] \in {"Error: ", "Error: Model call timed out"}

\* C4 as claimed: every stage result carries a success flag, true exactly
\* when the call succeeded, and an error detail exactly when it failed.
C4_SuccessFlagAsClaimed ==
    RunReturned =>
        \A i \in 1..3 :
            /\ HasKey(StageDicts[i], "success")
            /\ Get(StageDicts[i], "success") = Bool(calls[i].outcome = "ok")
            /\ HasKey(StageDicts[i], "error") <=> (calls[i].outcome # "ok")

\* C4, amended: every stage result, in both workflows, carries neither a
\* success flag nor an error detail; it carries the string call_model
\* returned for the stage's call, which reads "Error: ..." whenever the call
\* timed out or ended with an error.
C4_StageCarriesReturnedText ==
    RunReturned =>
        /\ Len(StageDicts) = 3
        /\ \A i \in 1..3 :
            /\ ~HasKey(StageDicts[i], "success")
            /\ ~HasKey(StageDicts[i], "error")
            /\ StageText(i) = calls[i].result.value
            /\ calls[i].outcome \in StageFailures => ReadsAsError(StageText(i))

\* a returned iterative run with a success, a timeout and an error
C4_Witness ==
    /\ workflow = "iterative"
    /\ RunReturned
    /\ Outcomes = <<"ok", "TimeoutExpired", "CalledProcessError">>
    /\ StageText(2) = TimeoutText

\* C5 as claimed: no failure of a stage's backend call ends the run; once
\* the workflow has started, the process ends only after the workflow has
\* returned its results with all three stages.
C5_NoCallFailureEndsTheRun ==
    (pc = "exited" /\ checks = <<"ok">> /\ Route(workflow) # "unknown") =>
        /\ Len(calls) = 3
        /\ ~last.result.raised
        /\ Len(StageDicts) = 3

\* the positions of the process inside a workflow or the saving
WorkflowPcs ==
    {"three_agent", "planning", "coding", "testing", "compile", "iterative",
     "pass1", "pass2", "pass3", "open", "dump"}

C7_UnknownWorkflowExitsNonZero ==
    (Len(argv) >= 2 /\ argv[2] \notin {"three-agent", "iterative"}) =>
        /\ calls = <<>>
        /\ fsops = <<>>
        /\ \A f \in FileNames : files[f] = NoFile
        /\ pc \notin WorkflowPcs
        /\ pc = "exited" =>
             /\ exitStatus # 0
             /\ console # <<>>
             /\ console[Len(console)] \in
                  {"Unknown workflow", "Error: Ollama is not installed", "Traceback"}

\* the process has ended on the unknown workflow name
C7_Witness ==
    /\ Len(argv) >= 2
    /\ argv[2] = "refine"
    /\ checks = <<"ok">>
    /\ pc = "exited"
    /\ exitStatus = 1
    /\ console = <<"Unknown workflow">>

\* the writing of the results failed: the file could not be opened, or not
\* all of the document reached it
WriteFailed ==
    \/ fsops = <<>>
    \/ fsops[Len(fsops)].op = "truncate"
    \/ fsops[Len(fsops)].n < Len(JsonDump(results))

\* C8: a call that times out or ends with an error never ends the process
\* and never keeps the results from being saved: the process ends only
\* after all three stages have run, and it ends with the whole record in
\* the destination file unless the writing itself failed.
C8_StageFailuresDoNotPreventSaving ==
    (pc = "exited" /\ \E i \in 1..Len(calls) : calls[i].outcome \in StageFailures)
    =>
        /\ \/ Len(calls) = 3 /\ ~last.result.raised
           \/ calls[Len(calls)].outcome \notin StageFailures
        /\ (Len(calls) = 3 /\ ~last.result.raised) =>
             /\ Len(StageDicts) = 3
             /\ exitStatus = 0 <=> ~WriteFailed
             /\ ~WriteFailed =>
                  files[OutputFile(workflow)]
                     = [exists |-> TRUE, data |-> JsonDump(results)]

\* a three-agent run whose second call alone timed out has been saved
C8_Witness ==
    /\ workflow = "three-agent"
    /\ pc = "exited"
    /\ exitStatus = 0
    /\ Outcomes = <<"ok", "TimeoutExpired", "ok">>
    /\ files["multi_agent_results.json"].data = JsonDump(results)
    /\ Contains(calls[3].cmd.prompt, TimeoutText)

\* C9 as claimed: the three kinds of result of call_model can be told
\* apart: two calls classified differently return different results.
C9_ResultsDistinguishable ==
    \A i, j \in 1..Len(calls) :
        ({calls[i].outcome, calls[j].outcome} \subseteq StageFailures \cup {"ok"}
            /\ calls[i].outcome # calls[j].outcome)
        => calls[i].result # calls[j].result

\* C9, amended: call_model returns a plain string in each of the three
\* cases: the output on success, the fixed text "Error: Model call timed
\* out" on a timeout, and "Error: " followed by the description of the
\* error, with the exit status, on a non-zero exit. The two failures differ
\* from each other; a success differs from them unless the backend printed a
\* text that reads as an error.
C9_ThreeResultsAsStrings ==
    \A i \in 1..Len(calls) :
        /\ calls[i].outcome \in StageFailures \cup {"ok"} => ~calls[i].result.raised
        /\ calls[i].outcome = "TimeoutExpired" => calls[i].result.value = TimeoutText
        /\ calls[i].outcome = "CalledProcessError" =>
             /\ calls[i].result.value[1] = "Error: "
             /\ Contains(calls[i].result.value,
                         <<"returned non-zero exit status", " ", "1", ".">>)
        /\ \A j \in 1..Len(calls) :
             (calls[i].outcome = "ok" /\ calls[j].outcome \in StageFailures
                /\ calls[i].result = calls[j].result)
             => ReadsAsError(calls[i].result.value)

\* a success and a timeout of one run returned the same string
C9_Witness ==
    /\ Len(calls) = 2
    /\ Outcomes = <<"ok", "TimeoutExpired">>
    /\ calls[1].result = calls[2].result

\* v is out without its leading and trailing whitespace
IsStripped(v, out) ==
    \E a \in 0..Len(out) : \E b \in a..Len(out) :
        /\ v = SubSeq(out, a + 1, b)
        /\ \A k \in 1..a : out[k] \in Whitespace
        /\ \A k \in (b + 1)..Len(out) : out[k] \in Whitespace
        /\ v # <<>> => (v[1] \notin Whitespace /\ v[Len(v)] \notin Whitespace)

\* C10 as claimed: on a successful call, call_model returns the text the
\* backend printed, token for token.
C10_ReturnsOutputUnchanged ==
    (calls # <<>> /\ Outcome(last.resp) = "ok") =>
        last.result.value = last.resp.out

\* C10, amended: on a successful call, call_model returns the text the
\* backend printed without its leading and trailing whitespace: unchanged
\* when it has none, and empty when it is empty or all whitespace.
C10_ReturnsStrippedOutput ==
    (calls # <<>> /\ Outcome(last.resp) = "ok") =>
        /\ ~last.result.raised
        /\ IsStripped(last.result.value, last.resp.out)
        /\ calls[Len(calls)].result = last.result

\* the backend printed a text with whitespace on both sides
C10_Witness ==
    /\ calls # <<>>
    /\ last.resp = Exit(0, <<" ", "a", " ">>)
    /\ last.result.value = <<"a">>


\* the models of the stages of a workflow, in stage order
StageModels(wf) ==
    IF wf = "three-agent"
    THEN <<"qwen2.5-coder:14b-instruct-q4_K_M", "qwen2.5-coder:7b-instruct-q8_0",
           "qwen2.5-coder:7b-instruct-q6_K">>
    ELSE <<"qwen2.5-coder:7b-instruct-q4_K_M", "qwen2.5-coder:7b-instruct-q6_K",
           "qwen2.5-coder:7b-instruct-q8_0">>

\* the number of calls made when the process is at pc inside a workflow
CallsBefore(p) ==
    IF p \in {"three_agent", "planning", "iterative", "pass1"} THEN 0
    ELSE IF p \in {"coding", "pass2"} THEN 1
    ELSE IF p \in {"testing", "pass3"} THEN 2
    ELSE 3

AllSucceeded == \A i \in 1..Len(calls) : calls[i].outcome = "ok"

\* the text of the stage result the last call has just filled
LastStageText ==
    IF pc = "coding" THEN Get(planning_result, "plan").s
    ELSE IF pc = "testing" THEN Get(coding_result, "code").s
    ELSE Get(testing_result, "tests").s

\* C12 as claimed: in a three-stage run whose three calls succeed with the
\* outputs o1, o2, o3, stage i carries exactly o_i, every success flag is
\* true, and the elapsed time is not negative.
C12_OutputsAsPrinted ==
    /\ (workflow = "three-agent" /\ pc \in {"coding", "testing", "compile"}
        /\ AllSucceeded) =>
            LastStageText = last.resp.out
    /\ (workflow = "three-agent" /\ RunReturned /\ AllSucceeded) =>
            /\ \A i \in 1..3 : /\ HasKey(StageDicts[i], "success")
                               /\ Get(StageDicts[i], "success") = Bool(TRUE)
            /\ Get(results, "total_time_seconds").n >= 0

\* C12, amended: in a three-stage run whose three calls succeed with the
\* outputs o1, o2, o3, stage i carries o_i without its leading and trailing
\* whitespace, and still carries it in the results of the run; no stage
\* result has a success flag; the elapsed time is the clock's reading at the
\* end less its reading at the start, negative only when the clock was set
\* back in between.
C12_OutputsStripped ==
    /\ (workflow = "three-agent" /\ pc \in {"coding", "testing", "compile"}
        /\ AllSucceeded) =>
            /\ IsStripped(LastStageText, last.resp.out)
            /\ LastStageText = calls[Len(calls)].result.value
    /\ (workflow = "three-agent" /\ RunReturned /\ AllSucceeded) =>
            /\ Len(StageDicts) = 3
            /\ \A i \in 1..3 : /\ StageText(i) = calls[i].result.value
                               /\ ~HasKey(StageDicts[i], "success")
            /\ Get(results, "total_time_seconds").n
                 = Get(testing_result, "timestamp").n - start_time
            /\ Get(results, "total_time_seconds").n < 0
                 => Get(testing_result, "timestamp").n < start_time

\* three calls have succeeded, the last with whitespace around its output,
\* and the run has taken time
C12_Witness ==
    /\ workflow = "three-agent"
    /\ RunReturned
    /\ AllSucceeded
    /\ last.resp = Exit(0, <<" ", "a", "\n">>)
    /\ StageText(3) = <<"a">>
    /\ Get(results, "total_time_seconds").n = MaxClock


----------------------------------------------------------------------------
(* Reading a saved document back: json.load on the tokens json.dump wrote *)

\* the number of backslashes that stand in a row right before position j
Backslashes(s, j) ==
    LET stop(r) == r = j - 1 \/ s[j - 1 - r] # "\\"
    IN  CHOOSE r \in 0..(j - 1) : stop(r) /\ \A r2 \in 0..(r - 1) : ~stop(r2)

\* the token at position j is a quote that no backslash escapes
ClosesString(s, j) == s[j] = "\"" /\ Backslashes(s, j) % 2 = 0

\* the position of the quote that closes the string opened at position i
\* (one past the end when none does)
JsonStringEnd(s, i) ==
    IF \E j \in (i + 1)..Len(s) : ClosesString(s, j)
    THEN CHOOSE j \in (i + 1)..Len(s) :
            /\ ClosesString(s, j)
            /\ \A j2 \in (i + 1)..(j - 1) : ~ClosesString(s, j2)
    ELSE Len(s) + 1

\* the character an escape stands for
JsonUnescaped(code) ==
    IF code = "n" THEN "\n" ELSE code

RECURSIVE JsonFlatten(_)
JsonFlatten(ss) ==
    IF ss = <<>> THEN <<>>
    ELSE IF Len(ss) = 1 THEN ss[1]
    ELSE LET m == Len(ss) \div 2
         IN  JsonFlatten(SubSeq(ss, 1, m)) \o JsonFlatten(SubSeq(ss, m + 1, Len(ss)))

\* the text of a string from what stands between its quotes
JsonUnescape(c) ==
    LET start(p) == c[p] = "\\" /\ Backslashes(c, p) % 2 = 0
        piece(p) == IF start(p) THEN <<>>
                    ELSE IF p > 1 /\ start(p - 1) THEN <<JsonUnescaped(c[p])>>
                    ELSE <<c[p]>>
    IN  JsonFlatten([p \in 1..Len(c) |-> piece(p)])

\* the numbers a saved document may hold
JsonNumbers == (0 - MaxClock - 3)..(MaxClock + 3)

\* the number a token spells (None when it spells none)
JsonNumber(tok) ==
    IF \E n \in JsonNumbers : ToString(n) = tok
    THEN Num(CHOOSE n \in JsonNumbers : ToString(n) = tok)
    ELSE None

RECURSIVE JsonValue(_, _)
RECURSIVE JsonMembers(_, _, _)
RECURSIVE JsonElements(_, _, _)

\* the value that starts at position i, and the position after it
JsonValue(s, i) ==
    IF i > Len(s) THEN [v |-> None, next |-> i]
    ELSE IF s[i] = "\""
         THEN LET j == JsonStringEnd(s, i)
              IN  [v |-> Str(JsonUnescape(SubSeq(s, i + 1, j - 1))), next |-> j + 1]
    ELSE IF s[i] = "{" THEN JsonMembers(s, i + 1, <<>>)
    ELSE IF s[i] = "[" THEN JsonElements(s, i + 1, <<>>)
    ELSE [v |-> JsonNumber(s[i]), next |-> i + 1]

\* the rest of an object, acc holding the members read so far
JsonMembers(s, i, acc) ==
    IF i > Len(s) THEN [v |-> None, next |-> i]
    ELSE IF s[i] = "}" THEN [v |-> Dict(acc), next |-> i + 1]
    ELSE IF s[i] = "," THEN JsonMembers(s, i + 1, acc)
    ELSE LET j   == JsonStringEnd(s, i)
             key == JsonUnescape(SubSeq(s, i + 1, j - 1))
             val == JsonValue(s, j + 2)
         IN  JsonMembers(s, val.next,
                         Append(acc, Item(IF key = <<>> THEN "" ELSE key[1], val.v)))

\* the rest of an array, acc holding the elements read so far
JsonElements(s, i, acc) ==
    IF i > Len(s) THEN [v |-> None, next |-> i]
    ELSE IF s[i] = "]" THEN [v |-> List(acc), next |-> i + 1]
    ELSE IF s[i] = "," THEN JsonElements(s, i + 1, acc)
    ELSE LET val == JsonValue(s, i)
         IN  JsonElements(s, val.next, Append(acc, val.v))

\* json.load of a document (None when the document is not one value)
JsonLoad(s) ==
    LET r == JsonValue(s, 1)
    IN  IF r.next = Len(s) + 1 THEN r.v ELSE None

\* the run has ended with its results saved
Saved == pc = "exited" /\ exitStatus = 0 /\ RunReturned

\* C13: for both kinds of run and whatever the outcomes of the three calls,
\* the document the run saved, read back, is the results of the run, field
\* for field.
C13_SavedRecordReadsBackEqual ==
    Saved =>
        /\ files[OutputFile(workflow)].exists
        /\ JsonLoad(files[OutputFile(workflow)].data) = results

\* an iterative run has saved results that hold a quote, backslashes and a
\* newline, after a success, an error and a timeout
C13_Witness ==
    /\ Saved
    /\ workflow = "iterative"
    /\ Outcomes = <<"ok", "CalledProcessError", "TimeoutExpired">>
    /\ StageText(1) = <<"\"", "\\">>
    /\ HasTok(StageText(2), "\\")
    /\ JsonLoad(files[OutputFile(workflow)].data) = results

\* a three-agent run has saved results with a negative elapsed time
C13_WitnessThreeAgent ==
    /\ Saved
    /\ workflow = "three-agent"
    /\ Get(results, "total_time_seconds").n < 0
    /\ HasTok(StageText(3), "\\")


\* C14: when a run has saved its results, the file of its workflow holds the
\* record of that run and nothing else, whatever earlier runs left in it:
\* the file is written over, never added to; the file of the other workflow
\* is as it was when the run started.
C14_FileHoldsLatestRecordOnly ==
    Saved =>
        /\ files[OutputFile(workflow)] = [exists |-> TRUE, data |-> JsonDump(results)]
        /\ \A f \in FileNames \ {OutputFile(workflow)} : files[f] = run.files[f]

\* a later run has saved its results over the different record an earlier
\* run of the same workflow had saved
C14_Witness ==
    /\ Saved
    /\ run.n > 1
    /\ run.files[OutputFile(workflow)].exists
    /\ Len(run.files[OutputFile(workflow)].data) > 1
    /\ run.files[OutputFile(workflow)].data[1] = "{"
    /\ run.files[OutputFile(workflow)].data # files[OutputFile(workflow)].data


\* the record in the file of the workflow, read back
SavedRecord == JsonLoad(files[OutputFile(workflow)].data)

\* the stage entries of a record, in order
StagesOf(rec) ==
    IF HasKey(rec, "iterations") THEN Get(rec, "iterations").d
    ELSE [i \in 1..Len(StageItems(rec)) |-> StageItems(rec)[i].v]

\* the key a stage entry keeps its text under
TextKey(i) ==
    IF workflow = "three-agent" THEN <<"plan", "code", "tests">>[i] ELSE "output"

\* C15 as claimed: the saved record of either workflow holds the task, the
\* kind of workflow, the stages in order and the elapsed time, and every
\* stage entry holds a model, an output text, a success flag and a timestamp.
C15_RecordFieldsAsClaimed ==
    Saved =>
        /\ HasKey(SavedRecord, "task")
        /\ HasKey(SavedRecord, "workflow")
        /\ HasKey(SavedRecord, "total_time_seconds")
        /\ Len(StagesOf(SavedRecord)) = 3
        /\ \A i \in 1..3 :
             /\ HasKey(StagesOf(SavedRecord)[i], "model")
             /\ HasKey(StagesOf(SavedRecord)[i], TextKey(i))
             /\ HasKey(StagesOf(SavedRecord)[i], "success")
             /\ HasKey(StagesOf(SavedRecord)[i], "timestamp")

\* C15, amended: the saved record of a three-agent run holds the task, the
\* three stage results in stage order, the elapsed time and the kind of
\* workflow, each stage result holding its text, its model and its time;
\* the saved record of an iterative run holds the task and the three
\* iterations in order and nothing else, each iteration holding the number
\* of the pass, the label of its model and its output. No entry of either
\* has a success flag.
C15_RecordFieldsAsWritten ==
    Saved =>
        /\ IF workflow = "three-agent"
           THEN /\ Keys(SavedRecord) = <<"task", "planning", "coding", "testing",
                                         "total_time_seconds", "workflow">>
                /\ Get(SavedRecord, "workflow") = Str(<<"three_agent_quality">>)
                /\ Get(SavedRecord, "total_time_seconds").t = "num"
           ELSE Keys(SavedRecord) = <<"task", "iterations">>
        /\ Get(SavedRecord, "task") = Str(task)
        /\ Len(StagesOf(SavedRecord)) = 3
        /\ \A i \in 1..3 :
             LET stage == StagesOf(SavedRecord)[i]
             IN  /\ Keys(stage) = IF workflow = "three-agent"
                                  THEN <<TextKey(i), "model", "timestamp">>
                                  ELSE <<"pass", "model", "output">>
                 /\ Get(stage, TextKey(i)) = Str(calls[i].result.value)
                 /\ IF workflow = "three-agent"
                    THEN /\ Get(stage, "model") = Str(<<calls[i].model>>)
                         /\ Get(stage, "timestamp").t = "num"
                    ELSE /\ Get(stage, "pass") = Num(i)
                         /\ Get(stage, "model") = Str(<<PassLabel(i)>>)

\* an iterative run has saved a record: it has no kind of workflow, no
\* elapsed time and no times of its passes
C15_Witness ==
    /\ Saved
    /\ workflow = "iterative"
    /\ Keys(SavedRecord) = <<"task", "iterations">>
    /\ Len(StagesOf(SavedRecord)) = 3
    /\ ~HasKey(StagesOf(SavedRecord)[3], "timestamp")

\* a three-agent run has saved a record
C15_WitnessThreeAgent ==
    /\ Saved
    /\ workflow = "three-agent"
    /\ HasKey(SavedRecord, "workflow")
    /\ HasKey(StagesOf(SavedRecord)[1], "timestamp")


StageRoles == <<PLANNING, CODING, TESTING>>

\* C17 as claimed: the lookup of every role, the reviewing role included,
\* gives a configuration of that role.
C17_EveryRoleHasItsConfig ==
    \A role \in AgentRole :
        /\ ~Lookup(MODELS, role).raised
        /\ Lookup(MODELS, role).config.role = role

\* C17, amended: the lookup of the planning, the coding and the testing role
\* gives a configuration of that role, and it is the model of that
\* configuration the stage of the role calls; the reviewing role is a role
\* with no entry: its lookup, like that of anything else that is not a key,
\* raises KeyError and gives no default.
C17_ThreeRolesHaveTheirConfig ==
    /\ \A role \in {PLANNING, CODING, TESTING} :
          /\ ~Lookup(MODELS, role).raised
          /\ Lookup(MODELS, role).config.role = role
    /\ \A role \in (AgentRole \cup {"unknown"}) \ {PLANNING, CODING, TESTING} :
          Lookup(MODELS, role).raised
    /\ workflow = "three-agent" =>
          \A i \in 1..Len(calls) :
              /\ calls[i].model = Lookup(MODELS, StageRoles[i]).config.name
              /\ calls[i].temperature = Lookup(MODELS, StageRoles[i]).config.temperature

\* the three stages of a three-agent run have looked their models up, and
\* the reviewing role has no entry
C17_Witness ==
    /\ workflow = "three-agent"
    /\ Len(calls) = 3
    /\ pc = "compile"
    /\ calls[3].model = Lookup(MODELS, TESTING).config.name
    /\ Lookup(MODELS, REVIEWING).raised


\* C18: no step of a run of either workflow changes the registry: through
\* any sequence of runs MODELS is what it was at the start.
C18_RegistryNeverChanges ==
    [](MODELS = InitialMODELS) /\ [][MODELS' = MODELS]_vars

\* the last of a sequence of runs has returned, an earlier one having been
\* a run of the other workflow
C18_Witness ==
    /\ run.n = MaxRuns
    /\ pc = "exited"
    /\ RunReturned
    /\ \E f \in FileNames \ {OutputFile(workflow)} : run.files[f].exists
    /\ MODELS = InitialMODELS


\* the task text of the command line: the words after the workflow with one
\* space between each two, or the default task when there are none
TaskOfArgv ==
    IF Len(argv) = 2 THEN <<"Create a simple calculator">>
    ELSE [i \in 1..(2 * (Len(argv) - 2) - 1) |->
            IF i % 2 = 1 THEN argv[2 + (i + 1) \div 2] ELSE " "]

\* C19: a run started without a task text has the default task, a run
\* started with one has exactly that text; it is the task of the prompt of
\* every call, the task of the results and the task of the saved record.
C19_TaskIsGivenTextOrDefault ==
    (Len(argv) >= 2 /\ pc # "main") =>
        /\ task = TaskOfArgv
        /\ \A i \in 1..Len(calls) :
              Contains(calls[i].cmd.prompt, <<"Task: ">> \o TaskOfArgv \o <<"\n", "\n">>)
        /\ RunReturned => Get(results, "task") = Str(TaskOfArgv)
        /\ Saved => (/\ HasKey(SavedRecord, "task")
                     /\ Get(SavedRecord, "task") = Str(TaskOfArgv))

\* a run started with a task of two words has saved its results
C19_Witness ==
    /\ Len(argv) = 4
    /\ Saved
    /\ task = <<"Implement", " ", "quicksort">>
    /\ Len(calls) = 3
    /\ Get(SavedRecord, "task") = Str(task)

\* a run started without a task text has made its calls with the default
C19_WitnessDefault ==
    /\ Len(argv) = 2
    /\ RunReturned
    /\ task = DefaultTask
    /\ Contains(calls[3].cmd.prompt, <<"Task: ">> \o DefaultTask)


\* the step after each step of a workflow, up to its return
StageAfter ==
    [p \in {"three_agent", "planning", "coding", "testing", "compile",
            "iterative", "pass1", "pass2", "pass3"} |->
        IF p = "three_agent" THEN "planning"
        ELSE IF p = "planning" THEN "coding"
        ELSE IF p = "coding" THEN "testing"
        ELSE IF p = "testing" THEN "compile"
        ELSE IF p = "iterative" THEN "pass1"
        ELSE IF p = "pass1" THEN "pass2"
        ELSE IF p = "pass2" THEN "pass3"
        ELSE "open"]

\* C20: every started run of either workflow goes through its three stages
\* in order, no step of it leading anywhere but to the next, and, every call
\* ending one way or another, it returns in the end.
C20_ReachesDoneThroughStagesInOrder ==
    /\ [][(pc \in DOMAIN StageAfter) => (pc' = StageAfter[pc])]_vars
    /\ (pc \in {"three_agent", "iterative"}) ~> RunReturned


\* the text the run has recorded for stage i
RecordedText(i) ==
    IF workflow = "three-agent"
    THEN Get(<<planning_result, coding_result, testing_result>>[i],
             <<"plan", "code", "tests">>[i]).s
    ELSE Get(Iterations(results)[i], "output").s

\* what stands in the prompt of stage i before the task, between the task
\* and the text of the stage before, and after that text
PromptFrame(i) ==
    IF workflow = "three-agent"
    THEN <<[head |-> PlanningSystemPrompt \o <<"\n", "\n", "Task: ">>,
            mid  |-> <<>>,
            tail |-> <<"\n", "\n",
                       "Please create a detailed implementation plan for this task.",
                       "\n">>],
           [head |-> CodingSystemPrompt \o <<"\n", "\n", "Task: ">>,
            mid  |-> <<"\n", "\n", "Implementation Plan:", "\n">>,
            tail |-> <<"\n", "\n",
                       "Please implement the code according to this plan. Provide complete, working code.",
                       "\n">>],
           [head |-> TestingSystemPrompt \o <<"\n", "\n", "Task: ">>,
            mid  |-> <<"\n", "\n", "Code to test:", "\n">>,
            tail |-> <<"\n", "\n", "Please:", "\n",
                       "1. Review the code for potential issues", "\n",
                       "2. Generate comprehensive unit tests", "\n",
                       "3. Identify any bugs or improvements needed", "\n">>]>>[i]
    ELSE <<[head |-> <<"Task: ">>,
            mid  |-> <<>>,
            tail |-> <<"\n", "\n", "Create a working implementation:">>],
           [head |-> <<"Task: ">>,
            mid  |-> <<"\n", "\n", "Initial draft:", "\n">>,
            tail |-> <<"\n", "\n", "Review and improve this code, fix any issues:">>],
           [head |-> <<"Task: ">>,
            mid  |-> <<"\n", "\n", "Refined code:", "\n">>,
            tail |-> <<"\n", "\n", "Final review and any necessary fixes:">>]>>[i]

\* C21: the prompt of the first stage is its fixed wording around the task
\* alone; the prompt of the second and of the third stage is its fixed
\* wording around the task and the recorded text of the stage just before
\* it, token for token, and around nothing else.
C21_PromptFromTaskAndPrecedingText ==
    \A i \in 1..Len(calls) :
        calls[i].cmd.prompt =
            PromptFrame(i).head \o task \o PromptFrame(i).mid
            \o (IF i = 1 THEN <<>> ELSE RecordedText(i - 1))
            \o PromptFrame(i).tail

\* the third stage of an iterative run has been called with the text of the
\* second, the text of a timeout; the longer text of the first is not in
\* its prompt
C21_Witness ==
    /\ workflow = "iterative"
    /\ Len(calls) = 3
    /\ calls[1].result.value = <<"a", "a", "a">>
    /\ calls[2].result.value = <<"Error: Model call timed out">>
    /\ Contains(calls[3].cmd.prompt, RecordedText(2))
    /\ ~Contains(calls[3].cmd.prompt, RecordedText(1))


\* the temperature of each stage of a workflow, in hundredths
StageTemperatures(wf) == <<20, 15, 15>>

\* C22: every call is made for the model and the temperature of its stage,
\* and the temperature is part of what is asked of the backend: the same
\* call with another temperature is another invocation.
C22_TemperatureIsPartOfTheInvocation ==
    \A i \in 1..Len(calls) :
        /\ calls[i].model = StageModels(workflow)[i]
        /\ calls[i].temperature = StageTemperatures(workflow)[i]
        /\ \A temperature \in {15, 20} \ {calls[i].temperature} :
              CallEntry(calls[i].model, calls[i].cmd.prompt, temperature, <<>>,
                        last.resp).cmd # calls[i].cmd


\* the result the run has recorded for stage i
RecordedStage(i) ==
    IF workflow = "three-agent"
    THEN <<planning_result, coding_result, testing_result>>[i]
    ELSE Iterations(results)[i]

\* the result of stage i when its text is the text of a timeout
TimedOutStage(i) ==
    IF workflow = "three-agent"
    THEN Dict(<<Item(TextKey(i), Str(<<"Error: Model call timed out">>)),
                Item("model", Str(<<StageModels(workflow)[i]>>)),
                Item("timestamp", Get(RecordedStage(i), "timestamp"))>>)
    ELSE Dict(<<Item("pass", Num(i)), Item("model", Str(<<PassLabel(i)>>)),
                Item("output", Str(<<"Error: Model call timed out">>))>>)

\* the call ran into the timeout, or the backend printed the very text
\* call_model answers a timeout with
TimedOutOrPrintedSo(resp) ==
    resp = Hang \/ resp = Exit(0, <<"Error: Model call timed out">>)

\* C23: a call that ran into the timeout and a call whose backend printed
\* the text of the timeout message return the same string, and from that
\* string on nothing tells them apart: the recorded result of the stage and
\* the prompt of the next stage are what that string alone makes them.
C23_PrintedTimeoutTextReadsAsTimeout ==
    /\ (calls # <<>> /\ TimedOutOrPrintedSo(last.resp)) =>
          /\ last.result = Returned(<<"Error: Model call timed out">>)
          /\ calls[Len(calls)].result = last.result
    /\ \A i \in 1..Len(calls) :
          calls[i].result = Returned(<<"Error: Model call timed out">>) =>
              /\ RecordedStage(i) = TimedOutStage(i)
              /\ i < Len(calls) =>
                    calls[i + 1].cmd.prompt =
                        PromptFrame(i + 1).head \o task \o PromptFrame(i + 1).mid
                        \o <<"Error: Model call timed out">>
                        \o PromptFrame(i + 1).tail

\* in one three-agent run the planning call printed the text of the timeout
\* message and the coding call ran into the timeout: both stages have
\* recorded the same text, and the testing call has been made
C23_Witness ==
    /\ workflow = "three-agent"
    /\ Len(calls) = 3
    /\ calls[1].outcome = "ok"
    /\ calls[2].outcome = "TimeoutExpired"
    /\ RecordedText(1) = <<"Error: Model call timed out">>
    /\ RecordedText(1) = RecordedText(2)
    /\ pc = "compile"


\* the recorded results of the stages whose calls have returned
RecordedStages == {i \in 1..Len(calls) : ~calls[i].result.raised}

\* C24 as claimed: in both workflows the model recorded in a stage result is
\* the model identifier the call of the stage was made with.
C24_RecordedModelIsCalledModel ==
    \A i \in RecordedStages :
        Get(RecordedStage(i), "model") = Str(<<calls[i].model>>)

\* the short labels the iterative workflow records for the models it calls
LabelOfModel ==
    ("qwen2.5-coder:7b-instruct-q4_K_M" :> "7b-q4")
    @@ ("qwen2.5-coder:7b-instruct-q6_K" :> "7b-q6")
    @@ ("qwen2.5-coder:7b-instruct-q8_0" :> "7b-q8")

\* C24, amended: in the three-agent workflow the model recorded in a stage
\* result is the identifier the call of the stage was made with, the one the
\* registry binds to the role of the stage; in the iterative workflow the
\* model recorded is not that identifier but a short label of it: 7b-q4,
\* 7b-q6, 7b-q8 for the q4_K_M, q6_K and q8_0 model of the pass.
C24_RecordedModelIsIdentifierOrLabel ==
    \A i \in RecordedStages :
        IF workflow = "three-agent"
        THEN /\ Get(RecordedStage(i), "model") = Str(<<calls[i].model>>)
             /\ calls[i].model = Lookup(MODELS, StageRoles[i]).config.name
        ELSE /\ calls[i].model \in DOMAIN LabelOfModel
             /\ Get(RecordedStage(i), "model") = Str(<<LabelOfModel[calls[i].model]>>)
             /\ Get(RecordedStage(i), "model") # Str(<<calls[i].model>>)

\* the three passes of an iterative run have recorded their labels
C24_Witness ==
    /\ workflow = "iterative"
    /\ RecordedStages = {1, 2, 3}
    /\ Get(RecordedStage(3), "model") = Str(<<"7b-q8">>)
    /\ calls[3].model = "qwen2.5-coder:7b-instruct-q8_0"

\* the three stages of a three-agent run have recorded their models
C24_WitnessThreeAgent ==
    /\ workflow = "three-agent"
    /\ RecordedStages = {1, 2, 3}
    /\ Get(RecordedStage(2), "model") = Str(<<"qwen2.5-coder:7b-instruct-q8_0">>)


\* the file held a whole record when the process started
HeldWholeRecord(f) ==
    run.files[f].exists /\ JsonLoad(run.files[f].data).t = "dict"

\* C25: while the results are being written, and after the writing has
\* failed, a file that held a whole record holds that record still or holds
\* the whole new one, never nothing and never a part.
C25_FailedWriteKeepsPreviousRecord ==
    (/\ pc = "dump" \/ (pc = "exited" /\ RunReturned /\ WriteFailed)
     /\ HeldWholeRecord(OutputFile(workflow))) =>
        \/ files[OutputFile(workflow)] = run.files[OutputFile(workflow)]
        \/ files[OutputFile(workflow)].data = JsonDump(results)


\* C26: a process started with no arguments does nothing but write the usage
\* and exit with status 0: it never checks for the backend, so whether the
\* backend is there makes no difference, it makes no call and it touches no
\* file.
C26_NoArgumentsUsageOnly ==
    Len(argv) = 1 =>
        /\ pc \in {"main", "exited"}
        /\ checks = <<>>
        /\ calls = <<>>
        /\ fsops = <<>>
        /\ files = run.files
        /\ pc = "main" => console = <<>>
        /\ pc = "exited" => (exitStatus = 0 /\ console = <<"Usage">>)

\* the process started with no arguments has exited
C26_Witness ==
    /\ argv = <<Script>>
    /\ pc = "exited"
    /\ exitStatus = 0
    /\ console = <<"Usage">>
    /\ checks = <<>>

====
